---- MODULE Spec2Model ----
(***************************************************************************)
(* Clone materialization of lib/elements/clone.py: Clone.clone_elements    *)
(* (a scoped duplicate of the href'd node with fill angles assigned) and   *)
(* Clone.to_stitch_groups (the pipeline that consumes the duplicate's      *)
(* elements).                                                              *)
(*                                                                         *)
(* The document is a store of nodes keyed by integer identity.  Python's   *)
(* None is the id 0 for nodes, <<>> for optional values (a present value v *)
(* is <<v>>), and "" for "no exception".  Transforms are the six           *)
(* coefficients <<a, b, c, d, e, f>> of inkex.Transform, over the          *)
(* integers; angles are whole degrees, restricted to the axis directions.  *)
(***************************************************************************)
EXTENDS Integers, Sequences, FiniteSets, TLC

\* ------------------------------------------------------------------ bounds
\* Most children a group source has.
MaxKids == 3
\* Most stitch groups one element produces in one call.
MaxGroups == 2

\* -------------------------------------------------------------------- tags
SVG_USE_TAG == "use"
SVG_GROUP_TAG == "g"
SVG_PATH_TAG == "path"
SVG_TEXT_TAG == "text"
\* The shape tags that embroider; use, text and g are not among them.
EMBROIDERABLE_TAGS == {SVG_PATH_TAG}

\* ------------------------------------------------------- inkex.Transform
Identity == <<1, 0, 0, 1, 0, 0>>

\* Transform.__matmul__: s @ o applies o first, then s.
Mul(s, o) ==
    << s[1] * o[1] + s[3] * o[2],
       s[2] * o[1] + s[4] * o[2],
       s[1] * o[3] + s[3] * o[4],
       s[2] * o[3] + s[4] * o[4],
       s[1] * o[5] + s[3] * o[6] + s[5],
       s[2] * o[5] + s[4] * o[6] + s[6] >>

Det(t) == t[1] * t[4] - t[3] * t[2]

\* The additive inverse of the rotation/scale coefficients, translation zeroed.
negate_of(t) == << -t[1], -t[2], -t[3], -t[4], 0, 0 >>

\* Transform.__neg__, the unary minus of line 124: the INVERSE transformation
\* (new_a = d/det, new_b = -b/det, new_c = -c/det, new_d = a/det, and the
\* translation mapped back).  The division is a float division in the program;
\* the transforms inverted here have det in {-1, 1}, where it is exact.
\* det = 0 raises ZeroDivisionError: see ComputeAngleTransform.
Neg(t) ==
    LET det == Det(t)
        na == t[4] \div det
        nb == (-t[2]) \div det
        nc == (-t[3]) \div det
        nd == t[1] \div det
    IN << na, nb, nc, nd, -(na * t[5] + nc * t[6]), -(nb * t[5] + nd * t[6]) >>

\* Transform.apply_to_point
apply_to_point(t, p) ==
    << t[1] * p[1] + t[3] * p[2] + t[5], t[2] * p[1] + t[4] * p[2] + t[6] >>

Norm360(deg) == deg % 360

\* math.cos and math.sin of a multiple of 90 degrees.
Cos90(deg) ==
    CASE Norm360(deg) = 0 -> 1
      [] Norm360(deg) = 90 -> 0
      [] Norm360(deg) = 180 -> -1
      [] Norm360(deg) = 270 -> 0

Sin90(deg) ==
    CASE Norm360(deg) = 0 -> 0
      [] Norm360(deg) = 90 -> 1
      [] Norm360(deg) = 180 -> 0
      [] Norm360(deg) = 270 -> -1

\* Transform(f"rotate(${deg})") of line 135: the text is "rotate($<deg>)";
\* inkex reads the arguments of a transform by scanning for numbers, so the
\* stray "$" is skipped and the result is add_rotate(deg) about the origin:
\* a = cos, b = sin, c = -sin, d = cos.  Angles are multiples of 90 here.
Rotate(deg) == << Cos90(deg), Sin90(deg), -Sin90(deg), Cos90(deg), 0, 0 >>

\* degrees(Vector2d.angle): degrees(atan2(y, x)), in (-180, 180], for a
\* vector on an axis or on a diagonal.
Atan2Deg(p) ==
    CASE p[2] = 0 /\ p[1] > 0 -> 0
      [] p[1] = 0 /\ p[2] > 0 -> 90
      [] p[2] = 0 /\ p[1] < 0 -> 180
      [] p[1] = 0 /\ p[2] < 0 -> -90
      [] p[1] > 0 /\ p[2] = p[1] -> 45
      [] p[1] < 0 /\ p[2] = -p[1] -> 135
      [] p[1] < 0 /\ p[2] = p[1] -> -135
      [] p[1] > 0 /\ p[2] = -p[1] -> -45

\* The vectors Atan2Deg is given for.
OnOctant(p) ==
    /\ p # <<0, 0>>
    /\ (p[1] = 0 \/ p[2] = 0 \/ p[1] = p[2] \/ p[1] = -p[2])

\* ------------------------------------------------------------- attributes
\* The value of INKSTITCH_ATTRIBS['angle'] on a node.
AttrAbsent == [k |-> "absent", v |-> 0]
AttrNum(n) == [k |-> "num", v |-> n]
\* a string float() cannot parse
AttrBad == [k |-> "bad", v |-> 0]

\* --------------------------------------------------------------- document
\* Node identities of the fixed part of the document.
Id == [root |-> 1, layer |-> 2, use |-> 3, holder |-> 4, src |-> 5]

Node(tag, transform, angle, parts, kids, parent, href) ==
    [tag |-> tag, transform |-> transform, angle |-> angle, parts |-> parts,
     kids |-> kids, parent |-> parent, href |-> href]


\* The angle attribute of the j-th of n shapes under an attribute profile:
\* "plain" leaves it unset, "set" gives every shape its own multiple of 90,
\* "wide" gives every shape 270, an angle beyond the half turn, "bad" gives
\* the last shape a value that is no number.
ShapeAngle(profile, j, n) ==
    CASE profile = "plain" -> AttrAbsent
      [] profile = "set" -> AttrNum(90 * j)
      [] profile = "wide" -> AttrNum(270)
      [] profile = "bad" -> IF j = n THEN AttrBad ELSE AttrNum(90)

KidId(j) == Id.src + 2 * j - 1
InnerId(j) == Id.src + 2 * j

\* A document: root > layer > use, and the href target src (absent when
\* src.kind = "missing") under the layer (before the use) or under holder.
\* A group source has the children src.kids, a "g" child holding one path.
Document(src, profile, parts, Tclone, Tsrc, Tlayer, Tholder, place) ==
    LET n == Len(src.kids)
        has == src.kind # "missing"
        kidIds == {KidId(j) : j \in 1..n}
        innerIds == {InnerId(j) : j \in {i \in 1..n : src.kids[i] = SVG_GROUP_TAG}}
        ids == {Id.root, Id.layer, Id.use, Id.holder}
                 \cup (IF has THEN {Id.src} ELSE {}) \cup kidIds \cup innerIds
        srcParent == IF place = "layer" THEN Id.layer ELSE Id.holder
        shape(tag, j, m) ==
            IF tag = SVG_PATH_TAG THEN <<ShapeAngle(profile, j, m), parts>>
            ELSE <<AttrAbsent, 0>>
    IN [id \in ids |->
          CASE id = Id.root ->
                 Node("svg", Identity, AttrAbsent, 0, <<Id.layer, Id.holder>>, 0, 0)
            [] id = Id.layer ->
                 Node(SVG_GROUP_TAG, Tlayer, AttrAbsent, 0,
                      IF has /\ place = "layer" THEN <<Id.src, Id.use>> ELSE <<Id.use>>,
                      Id.root, 0)
            [] id = Id.use ->
                 Node(SVG_USE_TAG, Tclone, AttrAbsent, 0, <<>>, Id.layer, Id.src)
            [] id = Id.holder ->
                 Node(SVG_GROUP_TAG, Tholder, AttrAbsent, 0,
                      IF has /\ place = "holder" THEN <<Id.src>> ELSE <<>>,
                      Id.root, 0)
            [] id = Id.src ->
                 Node(src.kind, Tsrc, shape(src.kind, 1, 1)[1], shape(src.kind, 1, 1)[2],
                      [j \in 1..n |-> KidId(j)], srcParent,
                      IF src.kind = SVG_USE_TAG THEN Id.use ELSE 0)
            [] id \in kidIds ->
                 LET j == (id - Id.src + 1) \div 2
                 IN Node(src.kids[j], Identity,
                         shape(src.kids[j], j, n)[1], shape(src.kids[j], j, n)[2],
                         IF src.kids[j] = SVG_GROUP_TAG THEN <<InnerId(j)>> ELSE <<>>,
                         Id.src, 0)
            [] id \in innerIds ->
                 LET j == (id - Id.src) \div 2
                 IN Node(SVG_PATH_TAG, Identity, ShapeAngle(profile, j, n), parts,
                         <<>>, KidId(j), 0)]

\* ------------------------------------------------------------------ state
VARIABLES
    nodes,             \* the document tree: node id -> node
    clone_fill_angle,  \* Clone.clone_fill_angle: <<>> (None) or <<degrees>>
    flip_angle,        \* Clone.flip_angle
    pc,                \* where the materialization is
    caller,            \* who entered the scope: "to_stitch_groups" or "with"
    exc,               \* the exception in flight or observed by the caller
    cloned_node,       \* the duplicate's id, 0 before it exists
    angle_transform,   \* <<>> while unbound, else <<transform>>
    elements,          \* the elements resolved from the duplicate
    idx,               \* the position of the running for loop
    last_patch,        \* to_stitch_groups' last_patch: <<>> or <<group>>
    patches,           \* to_stitch_groups' patches
    arg_last_patch,    \* history: the last_patch the caller supplied
    calls,             \* history: the last_patch handed to each element
    produced,          \* history: what each element returned
    origin,            \* history: the exception as first raised
    entry_nodes,       \* history: the document when the scope was entered
    removals,          \* history: parent.remove calls of this scope
    inserts,           \* history: parent.add calls of this scope
    t_arg,             \* the transform the module-level functions are called with
    flipped,           \* <<>> or <<the result of is_transform_flipped(t_arg)>>
    t_angle            \* <<>> or <<the result of angle_for_transform(t_arg)>>

vars == << nodes, clone_fill_angle, flip_angle, pc, caller, exc, cloned_node,
           angle_transform, elements, idx, last_patch, patches, arg_last_patch,
           calls, produced, origin, entry_nodes, removals, inserts,
           t_arg, flipped, t_angle >>

\* The state of the calls of the module-level functions, which the methods
\* of Clone neither read nor write.
pure == << t_arg, flipped, t_angle >>

\* No module-level function has been called.
PureIdle == t_arg = Identity /\ flipped = <<>> /\ t_angle = <<>>

\* The sequences of at most n members of S.
SeqsUpTo(S, n) == UNION {[1..k -> S] : k \in 0..n}

KidTags == {SVG_PATH_TAG, SVG_TEXT_TAG, SVG_GROUP_TAG}

Source(kind, kids) == [kind |-> kind, kids |-> kids]

\* The parameters are the sets the inputs are drawn from: sources, angle
\* profiles, parts per shape, the transforms of the clone, the source, the
\* layer and the holder, the places of the source, the custom fill angles
\* and the flip flags.
InitWith(Sources, Profiles, Parts, CloneTs, SrcTs, LayerTs, HolderTs, Places, Fills, Flips) ==
    /\ \E src \in Sources, profile \in Profiles, parts \in Parts,
          Tclone \in CloneTs, Tsrc \in SrcTs, Tlayer \in LayerTs,
          Tholder \in HolderTs, place \in Places :
          nodes = Document(src, profile, parts, Tclone, Tsrc, Tlayer, Tholder, place)
    /\ PureIdle
    /\ clone_fill_angle \in Fills
    /\ flip_angle \in Flips
    /\ pc = "idle"
    /\ caller = ""
    /\ exc = ""
    /\ cloned_node = 0
    /\ angle_transform = <<>>
    /\ elements = <<>>
    /\ idx = 1
    /\ last_patch = <<>>
    /\ patches = <<>>
    /\ arg_last_patch = <<>>
    /\ calls = <<>>
    /\ produced = <<>>
    /\ origin = ""
    /\ entry_nodes = nodes
    /\ removals = 0
    /\ inserts = 0

R90 == Rotate(90)

\* Every kind of source, every group of at most MaxKids children.
AllSources ==
    {Source("missing", <<>>), Source(SVG_USE_TAG, <<>>), Source(SVG_TEXT_TAG, <<>>),
     Source(SVG_PATH_TAG, <<>>)}
      \cup {Source(SVG_GROUP_TAG, ks) : ks \in SeqsUpTo(KidTags, MaxKids)}

\* scale(1, 0): a transform without an inverse
Flat0 == <<1, 0, 0, 0, 0, 0>>
\* scale(-1, 1)
FlipX == <<-1, 0, 0, 1, 0, 0>>
\* scale(1, -1) translate(3, 0)
FlipY == <<1, 0, 0, -1, 3, 0>>
\* translate(5, 7) scale(2)
Scale2 == <<2, 0, 0, 2, 5, 7>>

\* Every shape of source, few transforms.
Init ==
    InitWith(AllSources, {"plain", "bad"}, {1}, {Identity, R90}, {Identity, Flat0},
             {Identity}, {Identity}, {"layer"}, {<<>>, <<45>>}, {FALSE})

\* Few shapes of source, every combination of transforms, angle attributes,
\* parts and clone parameters.
InitAngle ==
    InitWith({Source(SVG_TEXT_TAG, <<>>), Source(SVG_PATH_TAG, <<>>),
              Source(SVG_GROUP_TAG, <<SVG_PATH_TAG, SVG_PATH_TAG>>)},
             {"plain", "set", "bad"}, {1, 2}, {Identity, R90, FlipX, Scale2},
             {Identity, R90, FlipY, Flat0}, {Identity, R90}, {Identity},
             {"layer", "holder"}, {<<>>, <<45>>}, BOOLEAN)


\* ------------------------------------------------------------ tree access
RECURSIVE Flat(_)
\* The concatenation of a sequence of sequences.
Flat(ss) == IF ss = <<>> THEN <<>> ELSE Head(ss) \o Flat(Tail(ss))

RECURSIVE Preorder(_, _)
\* Node n and its descendants, in document order.
Preorder(store, n) ==
    <<n>> \o Flat([j \in 1..Len(store[n].kids) |-> Preorder(store, store[n].kids[j])])

\* lxml's iterdescendants: every descendant, at any depth, in document order.
iterdescendants(store, n) == Tail(Preorder(store, n))

Range(seq) == {seq[j] : j \in 1..Len(seq)}

IndexOf(seq, x) == CHOOSE j \in 1..Len(seq) : seq[j] = x

MaxOf(S) == CHOOSE x \in S : \A y \in S : y <= x

RECURSIVE composed_transform(_, _)
\* BaseElement.composed_transform: the parent's composed transform @ the node's own.
composed_transform(store, n) ==
    IF store[n].parent = 0 THEN store[n].transform
    ELSE Mul(composed_transform(store, store[n].parent), store[n].transform)

\* The node id node.href resolves to, 0 (None) when no such node exists.
get_clone_source(store, n) ==
    IF store[n].href \in DOMAIN store THEN store[n].href ELSE 0

\* The identity the next new node gets.
FreshId(store) == MaxOf(DOMAIN store) + 1

\* A copy of the node alone, which shares its children with the original.
shallowcopy(store, n) ==
    [id \in {FreshId(store)} |-> [store[n] EXCEPT !.parent = 0]]

\* copy.deepcopy of the subtree at n: new nodes with fresh identities and the
\* same fields, the copy of n without a parent.  The copy of n is FreshId.
deepcopy(store, n) ==
    LET sub == Preorder(store, n)
        base == FreshId(store) - 1
        new(old) == base + IndexOf(sub, old)
    IN [id \in {base + k : k \in 1..Len(sub)} |->
          LET old == sub[id - base]
          IN [store[old] EXCEPT
                !.kids = [j \in 1..Len(@) |-> new(@[j])],
                !.parent = IF old = n THEN 0 ELSE new(@)]]

\* parent.add(child) with the child's subtree `frag`: appended as last child.
add(store, frag, parent, child) ==
    [id \in DOMAIN store \cup DOMAIN frag |->
        IF id = parent THEN [store[id] EXCEPT !.kids = Append(@, child)]
        ELSE IF id = child THEN [frag[id] EXCEPT !.parent = parent]
        ELSE IF id \in DOMAIN frag THEN frag[id]
        ELSE store[id]]

\* The nodes of the document: those reachable from the root.
DocNodes(store) == Range(Preorder(store, Id.root))

\* parent.remove(child) where child is a child of parent; the detached subtree
\* is no longer referenced by the document and is dropped from the store.
remove(store, parent, child) ==
    LET cut == [store EXCEPT
                  ![parent].kids = SelectSeq(@, LAMBDA k : k # child)]
    IN [id \in DocNodes(cut) |-> cut[id]]

\* node_to_elements(node, True): the elements of one node, one per part
\* (fill, stroke) for an embroiderable node, none for any other node.
node_to_elements(store, n) ==
    IF store[n].tag \in EMBROIDERABLE_TAGS
    THEN [k \in 1..store[n].parts |-> [node |-> n, part |-> k]]
    ELSE <<>>

\* GroupWalk over the children only.
ChildrenOnly(store, n) == store[n].kids

\* The traversal of a group in clone_to_elements (line 78).
GroupWalk(store, n) == iterdescendants(store, n)

\* Clone.clone_to_elements
clone_to_elements(store, n) ==
    IF store[n].tag \in EMBROIDERABLE_TAGS THEN node_to_elements(store, n)
    ELSE IF store[n].tag = SVG_GROUP_TAG
    THEN Flat([j \in 1..Len(GroupWalk(store, n)) |->
                  node_to_elements(store, GroupWalk(store, n)[j])])
    ELSE <<>>

\* --------------------------------------------------------- clone_elements
\* The parent of the use element (line 111).
Parent == nodes[Id.use].parent

\* IsIneligible with clones of clones let through as sources.
IsIneligibleButUse(tag) ==
    tag \notin EMBROIDERABLE_TAGS /\ tag # SVG_GROUP_TAG /\ tag # SVG_USE_TAG

\* Line 104: the source is neither an embroiderable shape nor a group.
IsIneligible(tag) == tag \notin EMBROIDERABLE_TAGS /\ tag # SVG_GROUP_TAG

\* EnterOutcome without the short-circuit of lines 104-106.
EnterOutcomeNoShortCircuit(store, source_node) ==
    IF source_node = 0 THEN "AttributeError" ELSE "duplicate"

\* EnterOutcome with a missing source taken for an ineligible one.
EnterOutcomeNoneIsEmpty(store, source_node) ==
    IF source_node = 0 THEN "empty"
    ELSE IF store[source_node].tag \notin EMBROIDERABLE_TAGS
            /\ store[source_node].tag # SVG_GROUP_TAG THEN "empty"
    ELSE "duplicate"

\* Lines 103-106: how clone_elements starts for a resolved source (0 = None):
\* reading .tag of None raises AttributeError.
EnterOutcome(store, source_node) ==
    IF source_node = 0 THEN "AttributeError"
    ELSE IF IsIneligible(store[source_node].tag) THEN "empty"
    ELSE "duplicate"

\* RaiseInTry without the try statement: the exception leaves at once.
RaiseNoTry == "raised"

\* Where control goes when an exception is raised inside the try block
\* (lines 114-146): the finally clause runs before it propagates.
RaiseInTry == "finally"

\* Reraise as a handler that swallows the exception.
Swallow(e) == ""

\* The exception that leaves the finally clause (lines 147-149) when e was
\* in flight and the clause itself raised nothing: e, re-raised.
Reraise(e) == e

Callers == {"to_stitch_groups", "with"}

\* The last_patch values a caller of to_stitch_groups supplies: None or a
\* stitch group of an earlier, unrelated element.
Upstream == [el |-> 0, k |-> 1]
LastPatchArgs == {<<>>, <<Upstream>>}

\* Lines 83 and 103-113: a caller enters the scope.  Every local starts afresh.
Enter(c, a) ==
    /\ UNCHANGED pure
    /\ pc \in {"idle", "returned", "raised"}
    /\ c = "with" => a = <<>>
    /\ caller' = c
    /\ arg_last_patch' = a
    /\ last_patch' = a
    /\ patches' = <<>>
    /\ calls' = <<>>
    /\ produced' = <<>>
    /\ entry_nodes' = nodes
    /\ removals' = 0
    /\ angle_transform' = <<>>
    /\ elements' = <<>>
    /\ idx' = 1
    /\ UNCHANGED << clone_fill_angle, flip_angle >>
    /\ LET source_node == get_clone_source(nodes, Id.use)
           outcome == EnterOutcome(nodes, source_node)
       IN CASE outcome = "AttributeError" ->
                 /\ pc' = "raised"
                 /\ exc' = "AttributeError"
                 /\ origin' = "AttributeError"
                 /\ cloned_node' = 0
                 /\ inserts' = 0
                 /\ UNCHANGED nodes
            [] outcome = "empty" ->
                 /\ pc' = "yielded"
                 /\ exc' = ""
                 /\ origin' = ""
                 /\ cloned_node' = 0
                 /\ inserts' = 0
                 /\ UNCHANGED nodes
            [] outcome = "duplicate" ->
                 /\ pc' = "duplicated"
                 /\ exc' = ""
                 /\ origin' = ""
                 /\ cloned_node' = FreshId(nodes)
                 /\ inserts' = 1
                 /\ nodes' = add(nodes, deepcopy(nodes, source_node), Parent,
                                 FreshId(nodes))

\* SetTransform with the product taken in the other order.
SetTransformReversed ==
    /\ UNCHANGED pure
    /\ pc = "duplicated"
    /\ nodes' = [nodes EXCEPT ![cloned_node].transform =
                    Mul(@, nodes[Id.use].transform)]
    /\ pc' = "transformed"
    /\ UNCHANGED << clone_fill_angle, flip_angle, caller, exc, cloned_node,
                    angle_transform, elements, idx, last_patch, patches,
                    arg_last_patch, calls, produced, origin, entry_nodes,
                    removals, inserts >>

\* Line 118: the duplicate's transform becomes clone transform @ its own.
SetTransform ==
    /\ UNCHANGED pure
    /\ pc = "duplicated"
    /\ nodes' = [nodes EXCEPT ![cloned_node].transform =
                    Mul(nodes[Id.use].transform, @)]
    /\ pc' = "transformed"
    /\ UNCHANGED << clone_fill_angle, flip_angle, caller, exc, cloned_node,
                    angle_transform, elements, idx, last_patch, patches,
                    arg_last_patch, calls, produced, origin, entry_nodes,
                    removals, inserts >>

\* Line 125: the translation stripped.
strip_translation(t) == << t[1], t[2], t[3], t[4], 0, 0 >>

\* AngleTransform without the inversion of the source transform.
AngleTransformNoInverse(source_transform, cloned_transform) ==
    strip_translation(Mul(cloned_transform, source_transform))

\* Lines 122-125 for a source transform that has an inverse.
AngleTransform(source_transform, cloned_transform) ==
    strip_translation(Mul(cloned_transform, Neg(source_transform)))

\* Lines 120-125: with no custom fill angle, bind angle_transform; inverting
\* a source transform of determinant 0 raises ZeroDivisionError.
ComputeAngleTransform ==
    /\ UNCHANGED pure
    /\ pc = "transformed"
    /\ LET source_node == get_clone_source(nodes, Id.use)
           source_transform == composed_transform(nodes, source_node)
           cloned_transform == composed_transform(nodes, cloned_node)
       IN IF clone_fill_angle # <<>>
          THEN /\ pc' = "resolving"
               /\ UNCHANGED << angle_transform, exc, origin >>
          ELSE IF Det(source_transform) = 0
          THEN /\ pc' = RaiseInTry
               /\ exc' = "ZeroDivisionError"
               /\ origin' = "ZeroDivisionError"
               /\ UNCHANGED angle_transform
          ELSE /\ pc' = "resolving"
               /\ angle_transform' = <<AngleTransform(source_transform, cloned_transform)>>
               /\ UNCHANGED << exc, origin >>
    /\ UNCHANGED << nodes, clone_fill_angle, flip_angle, caller, cloned_node,
                    elements, idx, last_patch, patches, arg_last_patch, calls,
                    produced, entry_nodes, removals, inserts >>

\* Line 127
ResolveElements ==
    /\ UNCHANGED pure
    /\ pc = "resolving"
    /\ elements' = clone_to_elements(nodes, cloned_node)
    /\ idx' = 1
    /\ pc' = "assigning"
    /\ UNCHANGED << nodes, clone_fill_angle, flip_angle, caller, exc, cloned_node,
                    angle_transform, last_patch, patches, arg_last_patch, calls,
                    produced, origin, entry_nodes, removals, inserts >>

\* Lines 133-137: the angle derived from the node's own angle attribute
\* (a number: 0 when absent) and angle_transform t.
DerivedAngle(t, element_angle) ==
    -Atan2Deg(apply_to_point(Mul(t, Rotate(-element_angle)), <<1, 0>>))

\* ApplyFlip that never flips.
NoFlip(flip, element_angle) == element_angle

\* Lines 141-142
ApplyFlip(flip, element_angle) == IF flip THEN -element_angle ELSE element_angle

\* Lines 132-142: the angle an element gets, given its node's attribute;
\* cfa and t are clone_fill_angle and angle_transform as optional values.
ElementAngle(cfa, flip, t, attr) ==
    ApplyFlip(flip, IF cfa = <<>> THEN DerivedAngle(t[1], attr.v) ELSE cfa[1])

\* Lines 128-144, one iteration: float() of an attribute that is no number
\* raises ValueError; otherwise the angle is written on the element's node.
AssignAngle ==
    /\ UNCHANGED pure
    /\ pc = "assigning"
    /\ idx <= Len(elements)
    /\ LET node == elements[idx].node
           attr == nodes[node].angle
       IN IF clone_fill_angle = <<>> /\ attr.k = "bad"
          THEN /\ pc' = RaiseInTry
               /\ exc' = "ValueError"
               /\ origin' = "ValueError"
               /\ UNCHANGED << nodes, idx >>
          ELSE /\ nodes' = [nodes EXCEPT ![node].angle =
                              AttrNum(ElementAngle(clone_fill_angle, flip_angle,
                                                   angle_transform, attr))]
               /\ idx' = idx + 1
               /\ UNCHANGED << pc, exc, origin >>
    /\ UNCHANGED << clone_fill_angle, flip_angle, caller, cloned_node,
                    angle_transform, elements, last_patch, patches,
                    arg_last_patch, calls, produced, entry_nodes, removals,
                    inserts >>

\* Yield that does not wait for the angle loop to finish.
YieldEarly ==
    /\ UNCHANGED pure
    /\ pc = "assigning"
    /\ pc' = "yielded"
    /\ idx' = 1
    /\ UNCHANGED << nodes, clone_fill_angle, flip_angle, caller, exc, cloned_node,
                    angle_transform, elements, last_patch, patches,
                    arg_last_patch, calls, produced, origin, entry_nodes,
                    removals, inserts >>

\* Line 146: the elements are handed to the caller; line 84-86 in
\* to_stitch_groups starts its own loop over them.
Yield ==
    /\ UNCHANGED pure
    /\ pc = "assigning"
    /\ idx > Len(elements)
    /\ pc' = "yielded"
    /\ idx' = 1
    /\ UNCHANGED << nodes, clone_fill_angle, flip_angle, caller, exc, cloned_node,
                    angle_transform, elements, last_patch, patches,
                    arg_last_patch, calls, produced, origin, entry_nodes,
                    removals, inserts >>

\* ------------------------------------------------------- to_stitch_groups
\* NextLastPatch that forgets the context after an element without groups.
NextLastPatchReset(lp, stitch_groups) ==
    IF Len(stitch_groups) > 0 THEN <<stitch_groups[Len(stitch_groups)]>> ELSE <<>>

\* Lines 88-89: last_patch after an element returned stitch_groups.
NextLastPatch(lp, stitch_groups) ==
    IF Len(stitch_groups) > 0 THEN <<stitch_groups[Len(stitch_groups)]>> ELSE lp

\* Extend that keeps only the last group of each element.
ExtendLastOnly(ps, stitch_groups) ==
    IF Len(stitch_groups) > 0 THEN Append(ps, stitch_groups[Len(stitch_groups)]) ELSE ps

\* Lines 88 and 90: patches after an element returned stitch_groups.
Extend(ps, stitch_groups) ==
    IF Len(stitch_groups) > 0 THEN ps \o stitch_groups ELSE ps

\* AfterBody with the short-circuit `yield []` inside the try block.
AfterBodyAlwaysFinally(raised) ==
    IF raised THEN RaiseInTry ELSE "finally"

\* Where the generator resumes when the with body ends, normally or not:
\* after `yield []` (line 105) or inside the try block (line 146).
AfterBody(raised) ==
    IF cloned_node = 0 THEN "exit_empty"
    ELSE IF raised THEN RaiseInTry ELSE "finally"

\* Lines 86-90, one iteration: the element returns n stitch groups.
Produce(n) ==
    /\ UNCHANGED pure
    /\ pc = "yielded"
    /\ caller = "to_stitch_groups"
    /\ idx <= Len(elements)
    /\ LET stitch_groups == [k \in 1..n |-> [el |-> idx, k |-> k]]
       IN /\ calls' = Append(calls, last_patch)
          /\ produced' = Append(produced, stitch_groups)
          /\ last_patch' = NextLastPatch(last_patch, stitch_groups)
          /\ patches' = Extend(patches, stitch_groups)
    /\ idx' = idx + 1
    /\ UNCHANGED << nodes, clone_fill_angle, flip_angle, pc, caller, exc,
                    cloned_node, angle_transform, elements, arg_last_patch,
                    origin, entry_nodes, removals, inserts >>

\* Line 87: element.to_stitch_groups raises.
DrawableRaises ==
    /\ UNCHANGED pure
    /\ pc = "yielded"
    /\ caller = "to_stitch_groups"
    /\ idx <= Len(elements)
    /\ calls' = Append(calls, last_patch)
    /\ exc' = "DrawableError"
    /\ origin' = "DrawableError"
    /\ pc' = AfterBody(TRUE)
    /\ UNCHANGED << nodes, clone_fill_angle, flip_angle, caller, cloned_node,
                    angle_transform, elements, idx, last_patch, patches,
                    arg_last_patch, produced, entry_nodes, removals, inserts >>

\* Line 92: the loop is over, patches is returned through the with statement.
ReturnPatches ==
    /\ UNCHANGED pure
    /\ pc = "yielded"
    /\ caller = "to_stitch_groups"
    /\ idx > Len(elements)
    /\ pc' = AfterBody(FALSE)
    /\ UNCHANGED << nodes, clone_fill_angle, flip_angle, caller, exc, cloned_node,
                    angle_transform, elements, idx, last_patch, patches,
                    arg_last_patch, calls, produced, origin, entry_nodes,
                    removals, inserts >>

\* Another user of the context manager: its with body ends, normally or by
\* raising.
BodyEnds(raises) ==
    /\ UNCHANGED pure
    /\ pc = "yielded"
    /\ caller = "with"
    /\ exc' = IF raises THEN "CallerError" ELSE ""
    /\ origin' = exc'
    /\ pc' = AfterBody(raises)
    /\ UNCHANGED << nodes, clone_fill_angle, flip_angle, caller, cloned_node,
                    angle_transform, elements, idx, last_patch, patches,
                    arg_last_patch, calls, produced, entry_nodes, removals,
                    inserts >>

\* Lines 105-106: the generator ends after `yield []`; an exception thrown
\* into it at the yield propagates.
ExitEmpty ==
    /\ UNCHANGED pure
    /\ pc = "exit_empty"
    /\ pc' = IF exc = "" THEN "returned" ELSE "raised"
    /\ UNCHANGED << nodes, clone_fill_angle, flip_angle, caller, exc, cloned_node,
                    angle_transform, elements, idx, last_patch, patches,
                    arg_last_patch, calls, produced, origin, entry_nodes,
                    removals, inserts >>

\* Lines 147-149: the finally clause.  lxml's remove raises ValueError for a
\* node that is no child of parent, which replaces the exception in flight.
Teardown ==
    /\ UNCHANGED pure
    /\ pc = "finally"
    /\ removals' = removals + 1
    /\ IF cloned_node \in Range(nodes[Parent].kids)
       THEN /\ nodes' = remove(nodes, Parent, cloned_node)
            /\ exc' = Reraise(exc)
       ELSE /\ exc' = "ValueError"
            /\ UNCHANGED nodes
    /\ pc' = IF exc' = "" THEN "returned" ELSE "raised"
    /\ UNCHANGED << clone_fill_angle, flip_angle, caller, cloned_node,
                    angle_transform, elements, idx, last_patch, patches,
                    arg_last_patch, calls, produced, origin, entry_nodes,
                    inserts >>

Next ==
    \/ \E c \in Callers, a \in LastPatchArgs : Enter(c, a)
    \/ SetTransform
    \/ ComputeAngleTransform
    \/ ResolveElements
    \/ AssignAngle
    \/ Yield
    \/ \E n \in 0..MaxGroups : Produce(n)
    \/ DrawableRaises
    \/ ReturnPatches
    \/ \E raises \in BOOLEAN : BodyEnds(raises)
    \/ ExitEmpty
    \/ Teardown

Spec == Init /\ [][Next]_vars


\* Sources of one path each, at every depth, with angles unset, 90 and 270;
\* clone and source under the same parent or not, the clone with or without
\* a transform of its own, layer and source rotated or mirrored; no custom
\* fill angle.
InitShared ==
    InitWith({Source(SVG_TEXT_TAG, <<>>), Source(SVG_PATH_TAG, <<>>),
              Source(SVG_GROUP_TAG, <<SVG_PATH_TAG>>),
              Source(SVG_GROUP_TAG, <<SVG_GROUP_TAG>>)},
             {"plain", "set", "wide"}, {1, 2}, {Identity, R90},
             {Identity, R90, FlipY, Flat0}, {Identity, R90, FlipX}, {Identity},
             {"layer", "holder"}, {<<>>}, BOOLEAN)

SpecShared == InitShared /\ [][Next]_vars

SpecAngle == InitAngle /\ [][Next]_vars

\* --------------------------------------------------- module-level functions
\* is_transform_flipped with <= for <.
is_transform_flipped_or_flat(t) == t[1] * t[4] <= t[2] * t[3]

\* Lines 191-194
is_transform_flipped(t) == t[1] * t[4] < t[2] * t[3]

\* Transform.add_scale(sx, sy): t @ scale(sx, sy), and the transform is returned.
add_scale(t, sx, sy) == Mul(t, <<sx, 0, 0, sy, 0, 0>>)

\* angle_for_transform without the correction of lines 186-187.
angle_for_transform_uncorrected(t) ==
    Atan2Deg(apply_to_point(<<t[1], t[2], t[3], t[4], 0, 0>>, <<1, 0>>))

\* Lines 181-188
angle_for_transform(t) ==
    LET s == <<t[1], t[2], t[3], t[4], 0, 0>>
        u == IF is_transform_flipped(s) THEN add_scale(s, -1, 1) ELSE s
    IN Atan2Deg(apply_to_point(u, <<1, 0>>))

\* Largest absolute value of a coefficient a, b, c, d of a transform the
\* functions are called with.
MaxCoef == 2

\* The transforms the functions are called with: every rotation/scale block
\* within the bound, with and without a translation.
PureTransforms ==
    {<<a, b, c, d, e, f>> : a \in -MaxCoef..MaxCoef, b \in -MaxCoef..MaxCoef,
                            c \in -MaxCoef..MaxCoef, d \in -MaxCoef..MaxCoef,
                            e \in {0, 3}, f \in {0, -4}}

\* is_transform_flipped(t_arg) is called.
CallIsFlipped ==
    /\ flipped = <<>>
    /\ flipped' = <<is_transform_flipped(t_arg)>>
    /\ UNCHANGED << nodes, clone_fill_angle, flip_angle, pc, caller, exc,
                    cloned_node, angle_transform, elements, idx, last_patch,
                    patches, arg_last_patch, calls, produced, origin,
                    entry_nodes, removals, inserts, t_arg, t_angle >>

\* angle_for_transform(t_arg) is called, for a transform whose image of
\* (1, 0) has an angle that is a multiple of 45 degrees.
CallAngleForTransform ==
    /\ t_angle = <<>>
    /\ OnOctant(<<t_arg[1], t_arg[2]>>)
    /\ t_angle' = <<angle_for_transform(t_arg)>>
    /\ UNCHANGED << nodes, clone_fill_angle, flip_angle, pc, caller, exc,
                    cloned_node, angle_transform, elements, idx, last_patch,
                    patches, arg_last_patch, calls, produced, origin,
                    entry_nodes, removals, inserts, t_arg, flipped >>

\* The functions are called on their own, on a document that stays as it is.
InitPure ==
    /\ nodes = Document(Source(SVG_PATH_TAG, <<>>), "plain", 1, Identity,
                        Identity, Identity, Identity, "layer")
    /\ clone_fill_angle = <<>>
    /\ flip_angle = FALSE
    /\ pc = "idle"
    /\ caller = ""
    /\ exc = ""
    /\ cloned_node = 0
    /\ angle_transform = <<>>
    /\ elements = <<>>
    /\ idx = 1
    /\ last_patch = <<>>
    /\ patches = <<>>
    /\ arg_last_patch = <<>>
    /\ calls = <<>>
    /\ produced = <<>>
    /\ origin = ""
    /\ entry_nodes = nodes
    /\ removals = 0
    /\ inserts = 0
    /\ t_arg \in PureTransforms
    /\ flipped = <<>>
    /\ t_angle = <<>>

NextPure ==
    \/ CallIsFlipped
    \/ CallAngleForTransform

SpecPure == InitPure /\ [][NextPure]_vars


\* =================================================================== claims
Exited == pc \in {"returned", "raised"}

Last(seq) == seq[Len(seq)]

\* The angle attribute now on the node of the i-th element.
AngleOf(i) == nodes[elements[i].node].angle

\* C1: once a scope has exited - normally, through the short-circuit for an
\* ineligible source, or by a failure raised while the angles are computed or
\* while the caller consumes the elements - the duplicate is not in the
\* document and the children of the clone's parent are those the parent had
\* when the scope was entered.
C1_NoDuplicateAfterExit ==
    Exited =>
        /\ nodes[Parent].kids = entry_nodes[Parent].kids
        /\ cloned_node \notin DocNodes(nodes)
        /\ DocNodes(nodes) = DocNodes(entry_nodes)

\* A scope that inserted the duplicate and failed while the angles were
\* being assigned has exited.
C1_Witness ==
    /\ pc = "raised"
    /\ origin = "ValueError"
    /\ inserts = 1
    /\ cloned_node # 0

\* C2: when an element raises during to_stitch_groups, the duplicate is
\* removed exactly once, it is gone by the time the caller has the failure,
\* and the failure the caller has is the element's.
C2_FailureAfterTeardown ==
    /\ removals <= inserts
    /\ (origin = "DrawableError" /\ cloned_node # 0) =>
          /\ pc \in {"finally", "raised"}
          /\ pc = "finally" => removals = 0 /\ exc = "DrawableError"
          /\ pc = "raised" =>
                /\ removals = 1
                /\ cloned_node \notin DocNodes(nodes)
                /\ exc = "DrawableError"

\* The second of three elements raised and the caller has the failure.
C2_Witness ==
    /\ pc = "raised"
    /\ origin = "DrawableError"
    /\ Len(elements) = 3
    /\ idx = 2
    /\ Len(produced[1]) > 0
    /\ removals = 1

\* The source is resolved and its tag is neither embroiderable nor the group tag.
SourceIneligible ==
    /\ nodes[Id.use].href \in DOMAIN nodes
    /\ nodes[nodes[Id.use].href].tag \notin EMBROIDERABLE_TAGS \cup {SVG_GROUP_TAG}

\* C3: for an ineligible source the scope yields no element and, at every
\* point of it, no duplicate exists and the document is the one the scope
\* was entered with.
C3_IneligibleNoMutation ==
    (SourceIneligible /\ pc # "idle") =>
        /\ pc \in {"yielded", "exit_empty", "returned", "raised"}
        /\ elements = <<>>
        /\ cloned_node = 0
        /\ inserts = 0
        /\ nodes = entry_nodes
        /\ Cardinality(DocNodes(nodes)) = Cardinality(DocNodes(entry_nodes))

\* The empty set is with the caller of a clone of a text node.
C3_Witness ==
    /\ SourceIneligible
    /\ nodes[nodes[Id.use].href].tag = SVG_TEXT_TAG
    /\ pc = "yielded"
    /\ elements = <<>>

\* The context the i-th element is to be called with: the last group of the
\* latest earlier element that returned any, else what the caller supplied.
ExpectedContext(i) ==
    LET J == {j \in 1..(i - 1) : produced[j] # <<>>}
    IN IF J = {} THEN arg_last_patch ELSE <<Last(produced[MaxOf(J)])>>

\* C4: every element is called with the last group of the most recent
\* earlier element that returned at least one group, or with the caller's
\* last_patch when there is none; an element that returns no group leaves
\* the context as it was.
C4_LastPatchContext ==
    /\ \A i \in 1..Len(calls) : calls[i] = ExpectedContext(i)
    /\ last_patch = ExpectedContext(Len(produced) + 1)

\* D1 returned two groups, D2 none, and D3 was called with D1's second.
C4_Witness ==
    /\ Len(calls) = 3
    /\ Len(produced) >= 2
    /\ Len(produced[1]) = 2
    /\ produced[2] = <<>>
    /\ calls[3] = <<[el |-> 1, k |-> 2]>>
    /\ arg_last_patch = <<Upstream>>

\* C5: patches is the concatenation, in element order, of what the elements
\* returned, each called once and in order; the returned list covers every
\* element.
C5_PatchesAreConcatenation ==
    /\ patches = Flat(produced)
    /\ \A i \in 1..Len(produced) :
          \A k \in 1..Len(produced[i]) : produced[i][k] = [el |-> i, k |-> k]
    /\ caller = "to_stitch_groups" /\ pc \in {"yielded", "finally", "exit_empty"}
          /\ exc = "" => Len(produced) = idx - 1
    /\ caller = "to_stitch_groups" /\ pc = "returned" =>
          Len(produced) = Len(elements)

\* Three elements returned two, no and two groups, and the list is returned.
C5_Witness ==
    /\ pc = "returned"
    /\ caller = "to_stitch_groups"
    /\ Len(elements) = 3
    /\ Len(produced[1]) = 2 /\ produced[2] = <<>> /\ Len(produced[3]) = 2
    /\ Len(patches) = 4

\* C6: with clone_fill_angle set, every element handed to the caller has
\* clone_fill_angle as its angle, negated when flip_angle is set, whatever
\* the transforms and the angle the node had.
C6_OverrideAngle ==
    (clone_fill_angle # <<>> /\ pc = "yielded") =>
        \A i \in 1..Len(elements) :
            AngleOf(i) = AttrNum(IF flip_angle THEN -clone_fill_angle[1]
                                 ELSE clone_fill_angle[1])

\* 45 with flip_angle gives -45 on two elements whose nodes had other
\* angles, under a clone transform and a source transform that rotate.
C6_Witness ==
    /\ pc = "yielded"
    /\ clone_fill_angle = <<45>>
    /\ flip_angle
    /\ Len(elements) = 2
    /\ nodes[Id.use].transform = R90
    /\ nodes[Id.src].transform = R90
    /\ Id.src + 1 \in DOMAIN entry_nodes
    /\ entry_nodes[Id.src + 1].angle = AttrNum(90)
    /\ \A i \in 1..2 : AngleOf(i) = AttrNum(-45)

RECURSIVE PathOf(_, _)
\* The child positions that lead from the root of its tree to node n.
PathOf(store, n) ==
    IF store[n].parent = 0 THEN <<>>
    ELSE Append(PathOf(store, store[n].parent),
                IndexOf(store[store[n].parent].kids, n))

RECURSIVE PathBefore(_, _)
\* Document order on paths: an ancestor before its descendants, and
\* otherwise by the first position that differs.
PathBefore(p, q) ==
    IF p = <<>> THEN q # <<>>
    ELSE IF q = <<>> THEN FALSE
    ELSE IF Head(p) # Head(q) THEN Head(p) < Head(q)
    ELSE PathBefore(Tail(p), Tail(q))

RECURSIVE IsUnder(_, _, _)
\* n is a proper descendant of a.
IsUnder(store, n, a) ==
    /\ store[n].parent # 0
    /\ (store[n].parent = a \/ IsUnder(store, store[n].parent, a))

\* The nodes whose elements a source at n resolves to.
ShapesOf(store, n) ==
    IF store[n].tag = SVG_GROUP_TAG
    THEN {m \in DOMAIN store : IsUnder(store, m, n)
                                 /\ store[m].tag \in EMBROIDERABLE_TAGS}
    ELSE {n}

\* C7: the elements resolved from the duplicate are the elements of the
\* embroiderable descendants of a group at any depth, or of the node itself
\* for a single shape: each element of each such node once, no element of any
\* other node, nodes in document order.
C7_FlattenInDocumentOrder ==
    (pc \in {"assigning", "yielded"} /\ cloned_node # 0) =>
        /\ \A i \in 1..Len(elements) :
              elements[i].node \in ShapesOf(nodes, cloned_node)
        /\ \A m \in ShapesOf(nodes, cloned_node) :
              \A k \in 1..nodes[m].parts :
                 Cardinality({i \in 1..Len(elements) :
                                 elements[i] = [node |-> m, part |-> k]}) = 1
        /\ \A i \in 1..Len(elements) :
              elements[i].part \in 1..nodes[elements[i].node].parts
        /\ \A i, j \in 1..Len(elements) :
              i < j =>
                 IF elements[i].node = elements[j].node
                 THEN elements[i].part < elements[j].part
                 ELSE PathBefore(PathOf(nodes, elements[i].node),
                                 PathOf(nodes, elements[j].node))

\* A group of a path, a text and a group that holds a path resolved to the
\* two paths, the nested one second.
C7_Witness ==
    /\ pc = "yielded"
    /\ cloned_node # 0
    /\ nodes[cloned_node].tag = SVG_GROUP_TAG
    /\ [j \in 1..Len(nodes[cloned_node].kids) |-> nodes[nodes[cloned_node].kids[j]].tag]
          = <<SVG_PATH_TAG, SVG_TEXT_TAG, SVG_GROUP_TAG>>
    /\ Len(elements) = 2
    /\ elements[1].node = nodes[cloned_node].kids[1]
    /\ nodes[elements[2].node].parent = nodes[cloned_node].kids[3]

\* The source of the clone is a clone whose source is the clone.
SourceCyclic ==
    /\ nodes[Id.use].href \in DOMAIN nodes
    /\ nodes[nodes[Id.use].href].tag = SVG_USE_TAG
    /\ nodes[nodes[Id.use].href].href = Id.use

\* C8 as claimed: a cyclic clone chain ends the materialization in a
\* CyclicReference failure.
C8_CyclicSignalled ==
    (SourceCyclic /\ Exited) => (pc = "raised" /\ exc = "CyclicReference")

\* C8: a clone whose source is a clone that references it back is taken
\* for an ineligible source: nothing recurses, no CyclicReference is
\* signalled, no element is yielded, to_stitch_groups returns no group and
\* the document stays as it was; the only failure is one the user of the
\* scope raises itself.
C8_CyclicIsIneligible ==
    (SourceCyclic /\ pc # "idle") =>
        /\ pc \in {"yielded", "exit_empty", "returned", "raised"}
        /\ exc \in {"", "CallerError"}
        /\ elements = <<>>
        /\ patches = <<>>
        /\ calls = <<>>
        /\ nodes = entry_nodes
        /\ (caller = "to_stitch_groups" /\ Exited) => pc = "returned"

\* to_stitch_groups has returned for a cyclic clone.
C8_Witness ==
    /\ SourceCyclic
    /\ caller = "to_stitch_groups"
    /\ pc = "returned"
    /\ patches = <<>>

\* The reference of the clone resolves to no node.
SourceMissing == nodes[Id.use].href \notin DOMAIN nodes

\* C9: with a reference that resolves to no node, materialization ends in a
\* failure the caller gets, never in an empty result, and the document is
\* not touched.
C9_BrokenReferenceFails ==
    (SourceMissing /\ pc # "idle") =>
        /\ pc = "raised"
        /\ exc = "AttributeError"
        /\ elements = <<>>
        /\ cloned_node = 0
        /\ inserts = 0
        /\ nodes = entry_nodes

\* to_stitch_groups has failed on a dangling reference.
C9_Witness ==
    /\ SourceMissing
    /\ caller = "to_stitch_groups"
    /\ pc = "raised"
    /\ exc = "AttributeError"

\* The base case of the derived mode for an eligible source: no custom
\* angle, no flip, identity as clone transform and as composed transform of
\* the source and of the clone's parent.
BaseCase ==
    /\ cloned_node # 0
    /\ clone_fill_angle = <<>>
    /\ ~flip_angle
    /\ nodes[Id.use].transform = Identity
    /\ ~SourceMissing
    /\ composed_transform(nodes, nodes[Id.use].href) = Identity
    /\ composed_transform(nodes, Parent) = Identity

\* The node of the i-th element had the angle 0 (unset, or set to 0) when
\* the scope was entered; the duplicate's nodes are the source's, copied in
\* document order.
LocalAngleWasZero(i) ==
    LET src == Preorder(entry_nodes, entry_nodes[Id.use].href)
        dup == Preorder(nodes, cloned_node)
        a == entry_nodes[src[IndexOf(dup, elements[i].node)]].angle
    IN a.k = "absent" \/ a = AttrNum(0)

\* angle_transform as the additive inverse would give it.
NegatedAngleTransform ==
    strip_translation(Mul(composed_transform(nodes, cloned_node),
                          negate_of(composed_transform(nodes, nodes[Id.use].href))))

\* C10 as claimed: in the base case an element of local angle 0 gets the
\* angle 0, and that angle is the one computed from
\* compose(T_copy_composed, negate_of(T_source_composed)) with negate_of the
\* additive inverse of the coefficients.
C10_BaseCaseByNegation ==
    (BaseCase /\ pc = "yielded") =>
        \A i \in 1..Len(elements) :
            LocalAngleWasZero(i) =>
                /\ AngleOf(i) = AttrNum(0)
                /\ AngleOf(i) = AttrNum(DerivedAngle(NegatedAngleTransform, 0))

\* C10: in the base case an element of local angle 0 gets the angle 0, the
\* angle computed from the composed transform of the copy composed with
\* the INVERSE of the composed transform of the source, translation zeroed:
\* angle_transform is the transform that takes the source's composed
\* transform to the copy's, here the identity.
C10_BaseCaseByInverse ==
    (BaseCase /\ pc = "yielded") =>
        /\ angle_transform # <<>>
        /\ Mul(angle_transform[1],
               strip_translation(composed_transform(nodes, nodes[Id.use].href)))
             = strip_translation(composed_transform(nodes, cloned_node))
        /\ angle_transform[1] = Identity
        /\ \A i \in 1..Len(elements) :
              LocalAngleWasZero(i) =>
                 AngleOf(i) = AttrNum(DerivedAngle(angle_transform[1], 0))
                 /\ AngleOf(i) = AttrNum(0)

\* Both elements of a group of two paths without angle attribute were
\* handed out in the base case.
C10_Witness ==
    /\ BaseCase
    /\ pc = "yielded"
    /\ Len(elements) = 2
    /\ \A i \in 1..2 : LocalAngleWasZero(i) /\ AngleOf(i) = AttrNum(0)


\* C11: is_transform_flipped is true exactly when the determinant a*d - b*c
\* of the rotation/scale block is negative, whatever the translation; a
\* determinant of 0 is not flipped.
C11_FlippedIffNegativeDeterminant ==
    flipped # <<>> => (flipped[1] <=> (Det(t_arg) < 0))

\* scale(-1, 1) with a translation was found flipped.
C11_Witness ==
    /\ flipped = <<TRUE>>
    /\ t_arg = <<-1, 0, 0, 1, 3, -4>>

\* theta brought into (-180, 180].
HalfOpen(theta) ==
    IF (theta % 360) > 180 THEN (theta % 360) - 360 ELSE theta % 360

\* C12: angle_for_transform does not depend on the translation; for a
\* rotation by theta it returns theta brought into (-180, 180], 0 for the
\* identity; for a reflected transform it returns the angle of the image of
\* (1, 0) after scale(-1, 1) is composed, which is 0 for the mirror
\* a=-1, b=0, c=0, d=1.
C12_AngleForTransform ==
    t_angle # <<>> =>
        /\ \A theta \in {0, 90, 180, 270} :
              <<t_arg[1], t_arg[2], t_arg[3], t_arg[4]>>
                 = <<Cos90(theta), Sin90(theta), -Sin90(theta), Cos90(theta)>>
              => t_angle[1] = HalfOpen(theta)
        /\ Det(t_arg) < 0 => t_angle[1] = Atan2Deg(<<-t_arg[1], -t_arg[2]>>)
        /\ Det(t_arg) >= 0 => t_angle[1] = Atan2Deg(<<t_arg[1], t_arg[2]>>)
        /\ <<t_arg[1], t_arg[2], t_arg[3], t_arg[4]>> = <<-1, 0, 0, 1>>
              => t_angle[1] = 0

\* The rotation by 270 degrees with a translation gave -90.
C12_Witness ==
    /\ t_arg = <<0, -1, 1, 0, 3, -4>>
    /\ t_angle = <<-90>>

\* The source node of the running scope as the scope found it, 0 for none.
SourceAtEntry == get_clone_source(entry_nodes, Id.use)

\* The duplicate exists with its transform set and has not been handed to
\* the finally clause: the scope's states from Duplicated through Yielded.
DuplicateLive ==
    /\ cloned_node # 0
    /\ pc \in {"transformed", "resolving", "assigning", "yielded"}

\* The subtree at d in `store` is a deep copy of the subtree at s in `orig`:
\* the same shape node by node in document order, made of nodes that are
\* none of the original's, with the same tag, parts and reference, and below
\* the top node the same transform.
IsDeepCopy(store, d, orig, s) ==
    LET src == Preorder(orig, s)
        dup == Preorder(store, d)
    IN /\ Len(dup) = Len(src)
       /\ Range(dup) \cap DOMAIN orig = {}
       /\ \A k \in 1..Len(src) :
            /\ store[dup[k]].tag = orig[src[k]].tag
            /\ store[dup[k]].parts = orig[src[k]].parts
            /\ store[dup[k]].href = orig[src[k]].href
            /\ k > 1 => store[dup[k]].transform = orig[src[k]].transform
            /\ Len(store[dup[k]].kids) = Len(orig[src[k]].kids)
            /\ \A j \in 1..Len(orig[src[k]].kids) :
                  IndexOf(dup, store[dup[k]].kids[j])
                    = IndexOf(src, orig[src[k]].kids[j])

\* C13: from Duplicated through Yielded the duplicate is a deep copy of the
\* source, it is a child of the parent of the clone reference, and its
\* transform is compose(T_clone, T_orig), the clone's transform on the left
\* of the source's own; until the angle loop starts the copied nodes also
\* carry the source's angle attributes.
C13_DuplicateIsComposedDeepCopy ==
    DuplicateLive =>
        /\ cloned_node \in DOMAIN nodes
        /\ nodes[cloned_node].parent = nodes[Id.use].parent
        /\ cloned_node \in Range(nodes[nodes[Id.use].parent].kids)
        /\ nodes[cloned_node].transform
             = Mul(entry_nodes[Id.use].transform,
                   entry_nodes[SourceAtEntry].transform)
        /\ IsDeepCopy(nodes, cloned_node, entry_nodes, SourceAtEntry)
        /\ pc \in {"transformed", "resolving"} =>
              \A k \in 1..Len(Preorder(nodes, cloned_node)) :
                 nodes[Preorder(nodes, cloned_node)[k]].angle
                   = entry_nodes[Preorder(entry_nodes, SourceAtEntry)[k]].angle

\* The duplicate of a group of two paths was handed out where the clone is
\* rotated and the source mirrored, so that the two orders of composition
\* differ.
C13_Witness ==
    /\ DuplicateLive
    /\ pc = "yielded"
    /\ Len(Preorder(nodes, cloned_node)) = 3
    /\ entry_nodes[Id.use].transform = R90
    /\ entry_nodes[SourceAtEntry].transform = FlipY
    /\ nodes[cloned_node].transform = Mul(R90, FlipY)
    /\ nodes[cloned_node].transform # Mul(FlipY, R90)

\* What holds while the caller has the elements of a duplicate: the
\* duplicate is attached and nothing was removed, and every element is a
\* node of the duplicate with a number as angle attribute.
HandedOut ==
    (pc = "yielded" /\ cloned_node # 0) =>
        /\ removals = 0
        /\ cloned_node \in Range(nodes[Parent].kids)
        /\ \A i \in 1..Len(elements) :
              /\ elements[i].node \in Range(Preorder(nodes, cloned_node))
              /\ AngleOf(i).k = "num"

\* One step keeps the order of the stages: angles are assigned only after
\* the duplicate has its transform, elements are handed out only from the
\* finished angle loop, once they are handed out no angle attribute of any
\* node changes, and the duplicate leaves the document only in the finally
\* clause, which is reached from the yield only when the caller's loop is
\* over or its body has raised.
StagesInOrder ==
    /\ (pc' = "assigning" /\ pc # "assigning") => pc = "resolving"
    /\ (pc' = "yielded" /\ pc # "yielded" /\ cloned_node' # 0) =>
          pc = "assigning" /\ idx > Len(elements)
    /\ pc \in {"yielded", "finally"} =>
          \A n \in DOMAIN nodes \cap DOMAIN nodes' :
             nodes'[n].angle = nodes[n].angle
    /\ (cloned_node \in DOMAIN nodes /\ cloned_node \notin DOMAIN nodes') =>
          pc = "finally"
    /\ (pc = "yielded" /\ pc' # "yielded" /\ cloned_node # 0) =>
          /\ pc' = "finally"
          /\ nodes' = nodes
          /\ caller = "to_stitch_groups" =>
                idx > Len(elements) \/ exc' # ""

\* C14: within one scope the stages come in the order Duplicated,
\* AngleAssigned, Yielded, Torn down: when the elements are yielded each
\* of them carries its final angle attribute and is a node of the duplicate,
\* which is still attached; no angle is written after the yield; the
\* duplicate is not removed before the caller is done with the elements.
C14_StagesInOrder == []HandedOut /\ [][StagesInOrder]_vars

\* The caller consumed both elements of a group whose paths had no angle
\* attribute, and the finally clause is about to run.
C14_Witness ==
    /\ pc = "finally"
    /\ caller = "to_stitch_groups"
    /\ exc = ""
    /\ idx = 3
    /\ Len(elements) = 2
    /\ \A i \in 1..2 : AngleOf(i).k = "num"
    /\ \A n \in Range(Preorder(entry_nodes, SourceAtEntry)) :
          entry_nodes[n].angle = AttrAbsent

\* Node n of the document is as it was when the scope began, except that the
\* parent of the clone reference may have the duplicate as one more child
\* after the children it had.
AsAtEntry(n) ==
    /\ n \in DOMAIN nodes
    /\ IF n = Parent
       THEN /\ [nodes[n] EXCEPT !.kids = entry_nodes[n].kids] = entry_nodes[n]
            /\ SubSeq(nodes[n].kids, 1, Len(entry_nodes[n].kids))
                 = entry_nodes[n].kids
       ELSE nodes[n] = entry_nodes[n]

\* C15: across a scope, entered once or again, whatever its outcome, the
\* source node and its descendants keep their transform, their angle
\* attribute and their place in the tree; what is written is written on
\* nodes of the duplicate only, so every node the document had when the
\* scope began is unchanged.
C15_SourceReadOnly ==
    /\ SourceAtEntry # 0 =>
          \A n \in Range(Preorder(entry_nodes, SourceAtEntry)) :
             /\ n \in DOMAIN nodes
             /\ nodes[n] = entry_nodes[n]
    /\ SourceAtEntry # 0 =>
          PathOf(nodes, SourceAtEntry) = PathOf(entry_nodes, SourceAtEntry)
    /\ \A n \in DOMAIN entry_nodes : AsAtEntry(n)

\* A custom angle was written on both paths of the duplicate of a group
\* whose own paths have no angle attribute, and the scope has ended.
C15_Witness ==
    /\ pc = "returned"
    /\ cloned_node # 0
    /\ clone_fill_angle = <<45>>
    /\ Len(elements) = 2
    /\ nodes[SourceAtEntry].tag = SVG_GROUP_TAG
    /\ \A n \in Range(Preorder(nodes, SourceAtEntry)) :
          nodes[n].angle = AttrAbsent

\* The case of C16: derived mode without flip, the clone without a transform
\* of its own, clone and eligible source children of the same parent, whose
\* composed transform has an inverse.
SharedCase ==
    /\ cloned_node # 0
    /\ clone_fill_angle = <<>>
    /\ ~flip_angle
    /\ nodes[Id.use].transform = Identity
    /\ nodes[SourceAtEntry].parent = nodes[Id.use].parent
    /\ Det(composed_transform(nodes, Parent)) # 0

\* The local angle of the i-th element: the angle attribute its node had in
\* the source when the scope began, 0 when it had none.
LocalAngle(i) ==
    LET src == Preorder(entry_nodes, SourceAtEntry)
        dup == Preorder(nodes, cloned_node)
        a == entry_nodes[src[IndexOf(dup, elements[i].node)]].angle
    IN IF a.k = "absent" THEN 0 ELSE a.v

\* C16 as claimed: in the shared case every element's final angle is its
\* own local angle.
C16_FinalAngleIsLocalAngle ==
    (SharedCase /\ pc = "yielded") =>
        \A i \in 1..Len(elements) : AngleOf(i) = AttrNum(LocalAngle(i))

\* C16: in the shared case angle_transform is the identity whatever the
\* shared ancestor transform and the source's own invertible transform are,
\* and every element's final angle is its own local angle up to whole
\* turns, brought into the range of the polar angle, -180 to 180: it is the
\* local angle itself when that lies strictly within the range (0 stays 0),
\* and 270 becomes -90.
C16_FinalAngleIsLocalAngleModulo360 ==
    (SharedCase /\ pc = "yielded") =>
        /\ angle_transform = <<Identity>>
        /\ \A i \in 1..Len(elements) :
              /\ AngleOf(i).k = "num"
              /\ (AngleOf(i).v - LocalAngle(i)) % 360 = 0
              /\ AngleOf(i).v \in -180..180
              /\ LocalAngle(i) \in -179..179 => AngleOf(i).v = LocalAngle(i)

\* A path of local angle 270 under a rotated layer, itself mirrored, was
\* handed out with the angle -90.
C16_Witness ==
    /\ SharedCase
    /\ pc = "yielded"
    /\ nodes[Parent].transform = R90
    /\ nodes[SourceAtEntry].transform = FlipY
    /\ Len(elements) >= 1
    /\ LocalAngle(1) = 270
    /\ AngleOf(1) = AttrNum(-90)

\* The temporary duplicates the document holds: the clone reference is the
\* last child its parent has of its own, so every child after it was put
\* there by a materialization.
Duplicates ==
    LET kids == nodes[Parent].kids
    IN {kids[j] : j \in {i \in 1..Len(kids) : i > IndexOf(kids, Id.use)}}

\* A scope with an eligible source is between line 113 and line 149.
BetweenInsertionAndTeardown ==
    /\ cloned_node # 0
    /\ pc \in {"duplicated", "transformed", "resolving", "assigning", "yielded",
               "finally"}

\* C17: in every state of every sequence of materializations the document
\* holds at most one temporary duplicate; it holds one, the scope's own,
\* exactly while a scope with an eligible source is between insertion and
\* teardown, and none when no scope is active; parent.remove is called at
\* most once in a scope, only for a scope that has inserted, and only while
\* its duplicate is a child of the parent, so it never fails.
C17_AtMostOneDuplicate ==
    /\ Cardinality(Duplicates) <= 1
    /\ BetweenInsertionAndTeardown <=> Cardinality(Duplicates) = 1
    /\ BetweenInsertionAndTeardown => Duplicates = {cloned_node}
    /\ pc \in {"idle", "returned", "raised"} => Duplicates = {}
    /\ removals <= inserts
    /\ inserts <= 1
    /\ pc = "finally" => cloned_node \in Range(nodes[Parent].kids)
    /\ (exc = "ValueError" /\ pc = "raised") => origin = "ValueError"

\* A materialization has handed out its elements: its duplicate is the one
\* child the parent has beyond those it had when the scope began.
C17_Witness ==
    /\ pc = "yielded"
    /\ cloned_node # 0
    /\ Duplicates = {cloned_node}
    /\ inserts = 1
    /\ removals = 0
    /\ Len(nodes[Parent].kids) = Len(entry_nodes[Parent].kids) + 1

============================================================================
